---- MODULE Spec2Model ----
(***************************************************************************)
(* Model of the two programs of the repository:                            *)
(*   docs/write_components_doc.py  the documentation generator, a script   *)
(*                                 that writes components.rst               *)
(*   ubc/bend90.py                 the bend90 component generator           *)
(*                                                                         *)
(* Text is modelled as text: a registry name is the sequence of its        *)
(* characters (so that sorted() and startswith() are computed on the       *)
(* characters), a line of the output file is a string, and the file is the *)
(* sequence of its newline-terminated lines.                               *)
(***************************************************************************)
EXTENDS Integers, Sequences, FiniteSets, TLC

(***************************************************************************)
(* Bounds                                                                  *)
(***************************************************************************)
MaxKeys == 3
MaxRuns == 2
MaxUnits == 6

(***************************************************************************)
(* Characters and names                                                    *)
(***************************************************************************)
CodePoint ==
  ("0" :> 48) @@ ("9" :> 57) @@ ("A" :> 65) @@ ("B" :> 66) @@ ("I" :> 73) @@
  ("L" :> 76) @@ ("R" :> 82) @@ ("Y" :> 89) @@ ("_" :> 95) @@ ("a" :> 97) @@
  ("b" :> 98) @@ ("c" :> 99) @@ ("d" :> 100) @@ ("e" :> 101) @@ ("f" :> 102) @@
  ("g" :> 103) @@ ("i" :> 105) @@ ("k" :> 107) @@ ("l" :> 108) @@ ("m" :> 109) @@
  ("n" :> 110) @@ ("o" :> 111) @@ ("p" :> 112) @@ ("r" :> 114) @@ ("s" :> 115) @@
  ("t" :> 116) @@ ("u" :> 117) @@ ("v" :> 118) @@ ("w" :> 119) @@ ("y" :> 121)

N_LIBRARY == <<"L","I","B","R","A","R","Y">>
N_circuit_names == <<"c","i","r","c","u","i","t","_","n","a","m","e","s">>
N_component_factory == <<"c","o","m","p","o","n","e","n","t","_","f","a","c","t","o","r","y">>
N_component_names == <<"c","o","m","p","o","n","e","n","t","_","n","a","m","e","s">>
N_container_names == <<"c","o","n","t","a","i","n","e","r","_","n","a","m","e","s">>
N_component_names_test_ports == <<"c","o","m","p","o","n","e","n","t","_","n","a","m","e","s","_","t","e","s","t","_","p","o","r","t","s">>
N_component_names_skip_test == <<"c","o","m","p","o","n","e","n","t","_","n","a","m","e","s","_","s","k","i","p","_","t","e","s","t">>
N_component_names_skip_test_ports == <<"c","o","m","p","o","n","e","n","t","_","n","a","m","e","s","_","s","k","i","p","_","t","e","s","t","_","p","o","r","t","s">>
N_dataclasses == <<"d","a","t","a","c","l","a","s","s","e","s">>
N_library == <<"l","i","b","r","a","r","y">>
N_waveguide_template == <<"w","a","v","e","g","u","i","d","e","_","t","e","m","p","l","a","t","e">>
N_add_fiber_array_siepic == <<"a","d","d","_","f","i","b","e","r","_","a","r","r","a","y","_","s","i","e","p","i","c">>
N_bend90 == <<"b","e","n","d","9","0">>
N_bend == <<"b","e","n","d">>
N_u_bend == <<"_","b","e","n","d">>
N_ring == <<"r","i","n","g">>

\* The text of a name: its characters joined.
RECURSIVE NameStr(_)
NameStr(n) == IF n = <<>> THEN "" ELSE Head(n) \o NameStr(Tail(n))

\* Python's str "<": code point order on the first differing character, a
\* proper prefix sorting first.
StrLess(a, b) ==
  \/ /\ Len(a) < Len(b)
     /\ \A i \in 1..Len(a) : a[i] = b[i]
  \/ \E i \in 1..Len(a) :
       /\ i <= Len(b)
       /\ \A j \in 1..(i-1) : a[j] = b[j]
       /\ CodePoint[a[i]] < CodePoint[b[i]]

\* variant: the underscore test is missing
StartsWithUnderscore_Never(name) == FALSE

\* name.startswith("_")
StartsWithUnderscore(name) == Len(name) >= 1 /\ name[1] = "_"

(***************************************************************************)
(* Python values: the defaults of the parameters of the callables          *)
(***************************************************************************)
PyInt(n) == [t |-> "int", i |-> n, s |-> "", q |-> <<>>]
PyBool(b) == [t |-> "bool", i |-> IF b THEN 1 ELSE 0, s |-> "", q |-> <<>>]
\* a float with one decimal digit, held in tenths
PyFloat(tenths) == [t |-> "float", i |-> tenths, s |-> "", q |-> <<>>]
PyStr(str) == [t |-> "str", i |-> 0, s |-> str, q |-> <<>>]
\* a tuple of ints
PyTuple(items) == [t |-> "tuple", i |-> 0, s |-> "", q |-> items]
PyNone == [t |-> "NoneType", i |-> 0, s |-> "", q |-> <<>>]
\* a list of ints
PyList(items) == [t |-> "list", i |-> 0, s |-> "", q |-> items]
\* inspect.Parameter.empty: the parameter has no default
PyEmpty == [t |-> "type", i |-> 0, s |-> "empty", q |-> <<>>]

RECURSIVE JoinComma(_)
JoinComma(strs) ==
  IF strs = <<>> THEN ""
  ELSE IF Len(strs) = 1 THEN strs[1]
  ELSE strs[1] \o ", " \o JoinComma(Tail(strs))

\* repr(value)
Repr(v) ==
  CASE v.t = "int" -> ToString(v.i)
    [] v.t = "bool" -> IF v.i = 1 THEN "True" ELSE "False"
    [] v.t = "float" -> ToString(v.i \div 10) \o "." \o ToString(v.i % 10)
    [] v.t = "str" -> "'" \o v.s \o "'"
    [] v.t = "tuple" ->
         "(" \o JoinComma([k \in 1..Len(v.q) |-> ToString(v.q[k])])
             \o (IF Len(v.q) = 1 THEN "," ELSE "") \o ")"
    [] v.t = "list" ->
         "[" \o JoinComma([k \in 1..Len(v.q) |-> ToString(v.q[k])]) \o "]"
    [] v.t = "NoneType" -> "None"
    [] OTHER -> "<class 'inspect._empty'>"

\* isinstance(value, (int, float, str, tuple)); bool is a subclass of int
IsDocumentedDefault(v) == v.t \in {"int", "bool", "float", "str", "tuple"}

(***************************************************************************)
(* The callables of the registry                                           *)
(***************************************************************************)
NotCallable == "not_callable"

Param(name, default) == [name |-> name, default |-> default]

\* inspect.signature(fn).parameters, in declared order
Signature(fn) ==
  CASE fn = "bend90" -> << Param("radius", PyInt(10)), Param("width", PyFloat(5)) >>
    [] fn = "bend" ->
         << Param("component", PyEmpty), Param("flatten", PyBool(FALSE)),
            Param("name", PyStr("wg")), Param("size", PyTuple(<<1, 2>>)),
            Param("port", PyNone), Param("n", PyInt(3)) >>
    [] fn = "_bend" -> << Param("layers", PyList(<<1>>)), Param("width", PyFloat(100)) >>
    [] fn = "LIBRARY" -> << >>
    [] fn = "add_fiber_array_siepic" ->
         << Param("safe_cell_names", PyBool(FALSE)), Param("fanout", PyTuple(<<4>>)),
            Param("with_loopback", PyBool(TRUE)), Param("empty", PyTuple(<< >>)) >>
    [] OTHER -> << >>

NamePool == {N_bend90, N_bend, N_u_bend, N_LIBRARY, N_add_fiber_array_siepic}

\* The callable the PDK registers under a name.
FnOf(name) == NameStr(name)

(***************************************************************************)
(* Configuration: the three exclusion sets                                 *)
(***************************************************************************)
SourceConfig ==
  [ skip |-> { N_LIBRARY, N_circuit_names, N_component_factory, N_component_names,
               N_container_names, N_component_names_test_ports,
               N_component_names_skip_test, N_component_names_skip_test_ports,
               N_dataclasses, N_library, N_waveguide_template },
    skip_plot |-> { N_add_fiber_array_siepic },
    skip_settings |-> { "flatten", "safe_cell_names" } ]

EmptyConfig == [ skip |-> {}, skip_plot |-> {}, skip_settings |-> {} ]

OverlapConfig ==
  [ skip |-> { N_bend },
    skip_plot |-> { N_bend, N_bend90, N_u_bend, N_ring },
    skip_settings |-> { "width", "no_such_parameter" } ]

Configs == { SourceConfig, EmptyConfig, OverlapConfig }

(***************************************************************************)
(* The documentation generator: docs/write_components_doc.py               *)
(***************************************************************************)
VARIABLES
  cells,          \* the registry: <<[name, fn], ...>> in the mapping's own order
  skip,           \* names left out of the documentation
  skip_plot,      \* names documented without a plot block
  skip_settings,  \* parameter names left out of the example call
  file,           \* components.rst: the sequence of its lines
  handle,         \* f: "none", "open" or "closed"
  pc,             \* position of the script
  keys,           \* sorted(cells.keys()), fixed when the loop starts
  idx,            \* position of the loop in keys
  stdout,         \* the names printed
  introspected,   \* the names whose callable was given to inspect.signature
  fault,          \* <<>>, or <<name>> when inspect.signature raised on name
  run,            \* number of the current execution of the script
  prevFile,       \* the file as the previous execution left it
  prevEnd,        \* how the previous execution ended: "done", "aborted" or "none"
  removed         \* which exclusion set lost an entry before this execution

VARIABLES
  radius,         \* bend90's radius argument, in 1/32
  width,          \* bend90's width argument, in 1/32
  bpc,            \* position inside bend90
  c,              \* the cell under construction
  labels,         \* the list of label texts
  i,              \* index of the label loop
  returned        \* the value bend90 returned, << >> before

bendVars == << radius, width, bpc, c, labels, i, returned >>

docVars == << cells, skip, skip_plot, skip_settings, file, handle, pc, keys, idx,
              stdout, introspected, fault, run, prevFile, prevEnd, removed >>

vars == << docVars, bendVars >>

HeaderLines ==
  << "", "", "Here are the components available in the PDK", "", "",
     "Components", "=============================" >>

Underline == "----------------------------------------------------"

AutofunctionLine(name) == ".. autofunction:: ubcpdk.components." \o NameStr(name)

CallLine(name, kwargs) ==
  "  c = ubcpdk.PDK.get_component(\"" \o NameStr(name) \o "\", " \o kwargs \o ")"

\* the block written for a name of skip_plot
SectionNoPlot(name) ==
  << "", "", NameStr(name), Underline, "", AutofunctionLine(name), "" >>

\* the block written for any other documented name
SectionWithPlot(name, kwargs) ==
  << "", "", NameStr(name), Underline, "", AutofunctionLine(name), "",
     ".. plot::", "  :include-source:", "", "  import ubcpdk", "",
     CallLine(name, kwargs), "  c.plot()", "" >>

\* variant: skip_settings is not consulted
KeptParams_IgnoringSettings(sig, settings) ==
  SelectSeq(sig, LAMBDA p : IsDocumentedDefault(p.default))

\* the parameters that make it into the example call
KeptParams(sig, settings) ==
  SelectSeq(sig, LAMBDA p : IsDocumentedDefault(p.default) /\ p.name \notin settings)

\* kwargs = ", ".join(f"{p}={repr(default)}" ...)
Kwargs(sig, settings) ==
  LET kept == KeptParams(sig, settings)
  IN  JoinComma([k \in 1..Len(kept) |-> kept[k].name \o "=" \o Repr(kept[k].default)])

\* variant: any underscore in the name hides it
Skipped_AnyUnderscore(name, skipset) ==
  name \in skipset \/ \E k \in 1..Len(name) : name[k] = "_"

\* variant: an entry of skip hides every name it is a prefix of
Skipped_ByPrefix(name, skipset) ==
  \/ StartsWithUnderscore(name)
  \/ \E e \in skipset : Len(e) <= Len(name) /\ SubSeq(name, 1, Len(e)) = e

\* if name in skip or name.startswith("_"): continue
Skipped(name, skipset) == name \in skipset \/ StartsWithUnderscore(name)

\* variant: the test is inverted
InSkipPlot_Inverted(name, plotset) == name \notin plotset

\* name in skip_plot
InSkipPlot(name, plotset) == name \in plotset

\* cells.keys()
Keys(reg) == [k \in 1..Len(reg) |-> reg[k].name]

\* cells[name]
Lookup(reg, name) == (CHOOSE k \in 1..Len(reg) : reg[k].name = name)

RECURSIVE InsertSorted(_, _)
InsertSorted(x, s) ==
  IF s = <<>> THEN << x >>
  ELSE IF StrLess(x, Head(s)) THEN << x >> \o s
  ELSE << Head(s) >> \o InsertSorted(x, Tail(s))

\* variant: the names are taken in the mapping's order
Sorted_MappingOrder(names) == names

\* sorted(names)
RECURSIVE Sorted(_)
Sorted(names) ==
  IF names = <<>> THEN <<>>
  ELSE InsertSorted(names[Len(names)], Sorted(SubSeq(names, 1, Len(names) - 1)))

\* variant: mode "a", the old content stays
OpenedContent_Append(old) == old

\* open(filepath, "w+") truncates the file
OpenedContent(old) == << >>

\* variant: the failure is swallowed
SignatureRaises_Never(fn) == FALSE

\* inspect.signature(fn) raises when fn can not be introspected
SignatureRaises(fn) == fn = NotCallable

RECURSIVE Registries(_)
Registries(n) ==
  IF n = 0 THEN { << >> }
  ELSE LET shorter == Registries(n - 1)
       IN  shorter \cup
           { Append(r, [name |-> nm, fn |-> f]) :
               r \in { s \in shorter : Len(s) = n - 1 },
               nm \in NamePool, f \in {"own", NotCallable} }

WellFormedRegistry(reg) ==
  \A a, b \in 1..Len(reg) : a # b => reg[a].name # reg[b].name

Resolve(reg) ==
  [k \in 1..Len(reg) |->
     [name |-> reg[k].name,
      fn |-> IF reg[k].fn = "own" THEN FnOf(reg[k].name) ELSE NotCallable]]

StaleFile == << "stale" >>

DocInit ==
  /\ \E r \in Registries(MaxKeys) :
       /\ WellFormedRegistry(r)
       /\ cells = Resolve(r)
  /\ \E cfg \in Configs :
       /\ skip = cfg.skip
       /\ skip_plot = cfg.skip_plot
       /\ skip_settings = cfg.skip_settings
  /\ file \in { << >>, StaleFile }
  /\ handle = "none"
  /\ pc = "start"
  /\ keys = << >>
  /\ idx = 0
  /\ stdout = << >>
  /\ introspected = {}
  /\ fault = << >>
  /\ run = 1
  /\ prevFile = << >>
  /\ prevEnd = "none"
  /\ removed = "none"

\* with open(filepath, "w+") as f:
Open ==
  /\ pc = "start"
  /\ file' = OpenedContent(file)
  /\ handle' = "open"
  /\ pc' = "header"
  /\ UNCHANGED << cells, skip, skip_plot, skip_settings, keys, idx, stdout,
                  introspected, fault, run, prevFile, prevEnd, removed,
                  bendVars >>

\* f.write(header); the for statement evaluates sorted(cells.keys())
WriteHeader ==
  /\ pc = "header"
  /\ file' = file \o HeaderLines
  /\ keys' = Sorted(Keys(cells))
  /\ idx' = 1
  /\ pc' = "loop"
  /\ UNCHANGED << cells, skip, skip_plot, skip_settings, handle, stdout,
                  introspected, fault, run, prevFile, prevEnd, removed,
                  bendVars >>

\* loop body, the name is skipped: continue
SkipName ==
  /\ pc = "loop"
  /\ idx <= Len(keys)
  /\ Skipped(keys[idx], skip)
  /\ idx' = idx + 1
  /\ UNCHANGED << cells, skip, skip_plot, skip_settings, file, handle, pc, keys,
                  stdout, introspected, fault, run, prevFile, prevEnd, removed,
                  bendVars >>

\* loop body, inspect.signature raises: the with statement closes the file
\* and the exception leaves the script
IntrospectFault ==
  /\ pc = "loop"
  /\ idx <= Len(keys)
  /\ ~ Skipped(keys[idx], skip)
  /\ SignatureRaises(cells[Lookup(cells, keys[idx])].fn)
  /\ stdout' = Append(stdout, keys[idx])
  /\ introspected' = introspected \cup { keys[idx] }
  /\ fault' = << keys[idx] >>
  /\ handle' = "closed"
  /\ pc' = "aborted"
  /\ UNCHANGED << cells, skip, skip_plot, skip_settings, file, keys, idx, run,
                  prevFile, prevEnd, removed,
                  bendVars >>

\* loop body, the section of the name is written
WriteSection ==
  /\ pc = "loop"
  /\ idx <= Len(keys)
  /\ ~ Skipped(keys[idx], skip)
  /\ LET name == keys[idx]
         fn == cells[Lookup(cells, name)].fn
     IN  /\ ~ SignatureRaises(fn)
         /\ stdout' = Append(stdout, name)
         /\ introspected' = introspected \cup { name }
         /\ file' = file \o
              (IF InSkipPlot(name, skip_plot)
                 THEN SectionNoPlot(name)
                 ELSE SectionWithPlot(name, Kwargs(Signature(fn), skip_settings)))
  /\ idx' = idx + 1
  /\ UNCHANGED << cells, skip, skip_plot, skip_settings, handle, pc, keys, fault,
                  run, prevFile, prevEnd, removed,
                  bendVars >>

\* the loop is exhausted: the with statement closes the file
Close ==
  /\ pc = "loop"
  /\ idx > Len(keys)
  /\ handle' = "closed"
  /\ pc' = "done"
  /\ UNCHANGED << cells, skip, skip_plot, skip_settings, file, keys, idx, stdout,
                  introspected, fault, run, prevFile, prevEnd, removed,
                  bendVars >>

\* a fresh process: everything but the file on disk starts anew
Restart ==
  /\ pc \in { "done", "aborted" }
  /\ run < MaxRuns
  /\ run' = run + 1
  /\ prevFile' = file
  /\ prevEnd' = pc
  /\ handle' = "none"
  /\ pc' = "start"
  /\ keys' = << >>
  /\ idx' = 0
  /\ stdout' = << >>
  /\ introspected' = {}
  /\ fault' = << >>

\* the orders a mapping with the entries of reg can hold them in
Orders(reg) ==
  { [k \in 1..Len(reg) |-> reg[perm[k]]] :
      perm \in { f \in [1..Len(reg) -> 1..Len(reg)] :
                   \A a, b \in 1..Len(reg) : a # b => f[a] # f[b] } }

\* the script is run again on the same registry and the same exclusion sets;
\* the mapping may hold its entries in another order
Rerun ==
  /\ Restart
  /\ cells' \in Orders(cells)
  /\ UNCHANGED << skip, skip_plot, skip_settings, file, removed, bendVars >>

\* the parameter names of the callables of the registry
ParamNames(reg) ==
  UNION { { Signature(reg[k].fn)[j].name : j \in 1..Len(Signature(reg[k].fn)) } :
            k \in 1..Len(reg) }

KeySet(reg) == { reg[k].name : k \in 1..Len(reg) }

\* the script is run again after an entry of skip that names no registry key
\* was deleted from the set
RerunWithoutSkipEntry ==
  /\ Restart
  /\ removed = "none"
  /\ \E e \in skip \ KeySet(cells) : skip' = skip \ { e }
  /\ removed' = "skip"
  /\ UNCHANGED << cells, skip_plot, skip_settings, file, bendVars >>

\* the same for an entry of skip_plot
RerunWithoutSkipPlotEntry ==
  /\ Restart
  /\ removed = "none"
  /\ \E e \in skip_plot \ KeySet(cells) : skip_plot' = skip_plot \ { e }
  /\ removed' = "skip_plot"
  /\ UNCHANGED << cells, skip, skip_settings, file, bendVars >>

\* the same for an entry of skip_settings that names no parameter
RerunWithoutSkipSettingsEntry ==
  /\ Restart
  /\ removed = "none"
  /\ \E e \in skip_settings \ ParamNames(cells) : skip_settings' = skip_settings \ { e }
  /\ removed' = "skip_settings"
  /\ UNCHANGED << cells, skip, skip_plot, file, bendVars >>

(***************************************************************************)
(* The component generator: ubc/bend90.py                                  *)
(***************************************************************************)
\* ubc.layers.LAYER, by layer name
LAYER == [ WG |-> "WG", DEVREC |-> "DEVREC", PORT |-> "PORT" ]

\* the decimal digits of a natural number, most significant first
RECURSIVE Digits(_)
Digits(n) == IF n < 10 THEN << ToString(n) >> ELSE Digits(n \div 10) \o << ToString(n % 10) >>

\* variant: the value is cut after the third decimal instead of rounded
Format3f_Truncating(units) ==
  LET t == (units * 3125) \div 100
      f == t % 1000
  IN  Digits(t \div 1000) \o << "." >> \o
      << ToString(f \div 100), ToString((f \div 10) % 10), ToString(f % 10) >>

\* f"{x:.3f}" for x = units/32: x is exact in binary, and the conversion
\* rounds its exact value to the nearest thousandth, a tie going to the even
\* neighbour
Format3f(units) ==
  LET m == units * 3125          \* x in 1/100000
      q == m \div 100
      r == m % 100
      t == IF r > 50 \/ (r = 50 /\ q % 2 = 1) THEN q + 1 ELSE q
      f == t % 1000
  IN  Digits(t \div 1000) \o << "." >> \o
      << ToString(f \div 100), ToString((f \div 10) % 10), ToString(f % 10) >>

\* variant: the parameter label is missing
Labels_Two(r, w) ==
  << << "Lumerical_INTERCONNECT_library=Design kits/EBeam" >>,
     << "Lumerical_INTERCONNECT_component=ebeam_bend_1550" >> >>

\* labels = [...]: each text is the sequence of its pieces
Labels(r, w) ==
  << << "Lumerical_INTERCONNECT_library=Design kits/EBeam" >>,
     << "Lumerical_INTERCONNECT_component=ebeam_bend_1550" >>,
     << "Spice_param:radius=" >> \o Format3f(r) \o << "u", " wg_width=" >>
        \o Format3f(w) \o << "u" >> >>

\* pp.c.bend_circular(...): the waveguide on layer, the cladding on the
\* cladding layers, and the two ports of a bend
BendCircular(r, w, layer, layers_cladding, cladding_offset) ==
  [ radius |-> r, width |-> w, layer |-> layer, layers_cladding |-> layers_cladding,
    cladding_offset |-> cladding_offset, ports |-> << "W0", "N0" >>,
    children |-> << >> ]

\* pp.c.label(text, position=(c.x, c.y + k * 0.1), layer): dy is k, in tenths
Label(text, k, layer) == [ kind |-> "label", text |-> text, dy |-> k, layer |-> layer ]

\* add_pins(c, layer): one pin marker for each port of the cell
AddPins(cell, layer) ==
  [ cell EXCEPT !.children =
      @ \o [ k \in 1..Len(cell.ports) |->
               [ kind |-> "pin", text |-> << cell.ports[k] >>, dy |-> 0, layer |-> layer ] ] ]

\* the layer the labels are put on
LabelLayer == LAYER.DEVREC

\* the layer handed to add_pins
PinLayer == LAYER.PORT

\* the arguments tried, in 1/32: the small ones, and the defaults 10 and 0.5
Radii == (1..MaxUnits) \cup { 320 }
Widths == (1..MaxUnits) \cup { 16 }

NoCell == [ radius |-> 0, width |-> 0, layer |-> "", layers_cladding |-> << >>,
            cladding_offset |-> 0, ports |-> << >>, children |-> << >> ]

BendInit ==
  /\ radius \in Radii
  /\ width \in Widths
  /\ bpc = "call"
  /\ c = NoCell
  /\ labels = << >>
  /\ i = 0
  /\ returned = << >>

\* c = pp.c.bend_circular(...)
CallBendCircular ==
  /\ bpc = "call"
  /\ c' = BendCircular(radius, width, LAYER.WG, << LAYER.DEVREC >>, 1)
  /\ bpc' = "labels"
  /\ UNCHANGED << radius, width, labels, i, returned, docVars >>

\* labels = [...]
BuildLabels ==
  /\ bpc = "labels"
  /\ labels' = Labels(radius, width)
  /\ i' = 0
  /\ bpc' = "loop"
  /\ UNCHANGED << radius, width, c, returned, docVars >>

\* one turn of the for loop: c.add(pp.c.label(...))
AddLabel ==
  /\ bpc = "loop"
  /\ i < Len(labels)
  /\ c' = [ c EXCEPT !.children = Append(@, Label(labels[i + 1], i, LabelLayer)) ]
  /\ i' = i + 1
  /\ UNCHANGED << radius, width, bpc, labels, returned, docVars >>

\* add_pins(c, layer=LAYER.PORT)
CallAddPins ==
  /\ bpc = "loop"
  /\ i >= Len(labels)
  /\ c' = AddPins(c, PinLayer)
  /\ bpc' = "return"
  /\ UNCHANGED << radius, width, labels, i, returned, docVars >>

\* return c
Return ==
  /\ bpc = "return"
  /\ returned' = << c >>
  /\ bpc' = "returned"
  /\ UNCHANGED << radius, width, c, labels, i, docVars >>

(***************************************************************************)
(* Specifications                                                          *)
(***************************************************************************)
\* the documentation generator; bend90 is not run
Init ==
  /\ DocInit
  /\ radius = 320 /\ width = 16 /\ bpc = "idle" /\ c = NoCell
  /\ labels = << >> /\ i = 0 /\ returned = << >>

Next ==
  \/ Open
  \/ WriteHeader
  \/ SkipName
  \/ IntrospectFault
  \/ WriteSection
  \/ Close
  \/ Rerun
  \/ RerunWithoutSkipEntry
  \/ RerunWithoutSkipPlotEntry
  \/ RerunWithoutSkipSettingsEntry

Spec == Init /\ [][Next]_vars

\* bend90; the documentation generator is not run
InitBend ==
  /\ BendInit
  /\ cells = << >> /\ skip = {} /\ skip_plot = {} /\ skip_settings = {}
  /\ file = << >> /\ handle = "none" /\ pc = "idle" /\ keys = << >> /\ idx = 0
  /\ stdout = << >> /\ introspected = {} /\ fault = << >> /\ run = 1
  /\ prevFile = << >> /\ prevEnd = "none" /\ removed = "none"

NextBend ==
  \/ CallBendCircular
  \/ BuildLabels
  \/ AddLabel
  \/ CallAddPins
  \/ Return

SpecBend == InitBend /\ [][NextBend]_vars

(***************************************************************************)
(* Reading the output file                                                 *)
(***************************************************************************)
\* the registry names the generator has to document
Documented(n) == n \notin skip /\ ~ (Len(n) > 0 /\ Head(n) = "_")

DocumentedNames == { n \in KeySet(cells) : Documented(n) }

\* the lines of f that read x
LinesEq(f, x) == { k \in 1..Len(f) : f[k] = x }

\* the lines of f that are section titles: the line above a dashed underline
Headings(f) == { k \in 1..(Len(f) - 1) : f[k + 1] = "----------------------------------------------------" }

\* the section titles of f that read as the name n
HeadingsOf(f, n) == { k \in Headings(f) : f[k] = NameStr(n) }

\* the last line of the section that starts at title k
SectionEnd(f, k) ==
  IF \E h \in Headings(f) : h > k
    THEN (CHOOSE h \in Headings(f) : h > k /\ \A g \in Headings(f) : g > k => h <= g) - 1
    ELSE Len(f)

\* the lines of the section that starts at title k, blank lines dropped
SectionText(f, k) == SelectSeq(SubSeq(f, k, SectionEnd(f, k)), LAMBDA line : line # "")

Directive(n) == ".. autofunction:: ubcpdk.components." \o NameStr(n)

\* the example call expected for name n: the parameters of declared, one at a
\* time in declared order
RECURSIVE ExpectedArgs(_)
ExpectedArgs(declared) ==
  IF declared = << >> THEN << >>
  ELSE LET p == Head(declared)
           primitive == p.default.t \in {"int", "bool", "float", "str", "tuple"}
       IN  (IF primitive /\ p.name \notin skip_settings
              THEN << p.name \o "=" \o Repr(p.default) >>
              ELSE << >>) \o ExpectedArgs(Tail(declared))

ExpectedCall(n) ==
  "  c = ubcpdk.PDK.get_component(\"" \o NameStr(n) \o "\", "
     \o JoinComma(ExpectedArgs(Signature(cells[Lookup(cells, n)].fn))) \o ")"

(***************************************************************************)
(* Claims about the documentation generator                                *)
(***************************************************************************)
\* C1: after a complete run, every registry name that is not in skip and does
\* not start with an underscore has exactly one section headed by it and
\* exactly one autofunction directive referencing it in the output file.
C1_OneSectionPerName ==
  pc = "done" =>
    \A n \in DocumentedNames :
      /\ Cardinality(HeadingsOf(file, n)) = 1
      /\ Cardinality(LinesEq(file, Directive(n))) = 1

\* a second complete run over two documented names, one of them with an
\* underscore inside its name
C1_Witness ==
  /\ pc = "done"
  /\ run = 2
  /\ { N_add_fiber_array_siepic, N_bend90 } \subseteq DocumentedNames

\* C2: for every documented name outside skip_plot the example call names
\* exactly the parameters with an int, float, str or tuple default that are
\* not in skip_settings, each as name=repr(default), in declared order; for
\* bend90(radius=10, width=0.5) and empty exclusion sets the line is
\* c = ubcpdk.PDK.get_component("bend90", radius=10, width=0.5).
C2_CallArguments ==
  pc = "done" =>
    /\ \A n \in DocumentedNames \ skip_plot :
         \A k \in HeadingsOf(file, n) :
           /\ Len(SectionText(file, k)) = 8
           /\ SectionText(file, k)[7] = ExpectedCall(n)
    /\ ( /\ N_bend90 \in KeySet(cells)
         /\ skip = {} /\ skip_plot = {} /\ skip_settings = {} )
       => Cardinality(LinesEq(file,
            "  c = ubcpdk.PDK.get_component(\"bend90\", radius=10, width=0.5)")) = 1
    /\ ( /\ N_bend \in DocumentedNames \ skip_plot
         /\ skip_settings = { "flatten", "safe_cell_names" } )
       => Cardinality(LinesEq(file,
            "  c = ubcpdk.PDK.get_component(\"bend\", name='wg', size=(1, 2), n=3)")) = 1

\* a complete run that documents bend, whose parameters include one without a
\* default, one of skip_settings, a None default and primitive defaults
C2_Witness ==
  /\ pc = "done"
  /\ N_bend \in DocumentedNames \ skip_plot
  /\ "flatten" \in skip_settings
  /\ HeadingsOf(file, N_bend) # {}

\* C3: the section of a documented name holds, besides its title and the
\* autofunction directive, exactly one plot block with the import, the call
\* and the plot invocation when the name is not in skip_plot, and nothing
\* else when it is.
C3_PlotBlock ==
  pc = "done" =>
    \A n \in DocumentedNames :
      \A k \in HeadingsOf(file, n) :
        LET text == SectionText(file, k)
        IN  /\ SubSeq(text, 1, 3) =
                 << NameStr(n), "----------------------------------------------------",
                    Directive(n) >>
            /\ IF n \in skip_plot
                 THEN Len(text) = 3
                 ELSE /\ Len(text) = 8
                      /\ SubSeq(text, 4, 6) =
                           << ".. plot::", "  :include-source:", "  import ubcpdk" >>
                      /\ text[7] \notin { "", ".. plot::", "  import ubcpdk", "  c.plot()" }
                      /\ text[8] = "  c.plot()"

\* a complete run with a section of each kind
C3_Witness ==
  /\ pc = "done"
  /\ \E n \in DocumentedNames : n \in skip_plot /\ HeadingsOf(file, n) # {}
  /\ \E n \in DocumentedNames : n \notin skip_plot /\ HeadingsOf(file, n) # {}

\* the registry name a section title reads as
NameOfHeading(f, k) == CHOOSE n \in KeySet(cells) : NameStr(n) = f[k]

\* the documented names whose callable can not be introspected
Unintrospectable == { n \in DocumentedNames : cells[Lookup(cells, n)].fn = "not_callable" }

\* the first of them in sorted order
FirstUnintrospectable ==
  CHOOSE n \in Unintrospectable : \A m \in Unintrospectable \ { n } : StrLess(n, m)

\* C4: a second run on the same registry and the same exclusion sets leaves
\* a file identical to the one the first run left, whatever order the
\* registry holds its entries in: the file is overwritten, not appended to.
C4_Idempotent ==
  (pc = "done" /\ run > 1 /\ removed = "none") => file = prevFile

\* a second complete run that wrote sections, on a registry held in an order
\* that is not the sorted one
C4_Witness ==
  /\ pc = "done" /\ run = 2 /\ removed = "none"
  /\ Cardinality(Headings(file)) >= 2
  /\ Keys(cells) # keys

\* C5: the file starts with the header block, written once and before any
\* section, and the sections follow in lexicographic order of their names.
C5_HeaderThenSortedSections ==
  pc \in { "loop", "done", "aborted" } =>
    /\ Len(file) >= 7
    /\ SubSeq(file, 1, 7) =
         << "", "", "Here are the components available in the PDK", "", "",
            "Components", "=============================" >>
    /\ LinesEq(file, "=============================") = { 7 }
    /\ LinesEq(file, "Here are the components available in the PDK") = { 3 }
    /\ \A k \in Headings(file) : k > 7
    /\ \A k1, k2 \in Headings(file) :
         k1 < k2 => StrLess(NameOfHeading(file, k1), NameOfHeading(file, k2))

\* three sections written from a registry that holds the names in another
\* order than the sorted one
C5_Witness ==
  /\ pc = "done"
  /\ Cardinality(Headings(file)) = 3
  /\ Keys(cells) # keys

\* C6: a registry key that is in skip or starts with an underscore leaves no
\* trace: no section, no directive, no plot block, no introspection, also
\* when the key is in skip_plot.
C6_SkippedLeavesNothing ==
  /\ \A n \in KeySet(cells) \ DocumentedNames :
       /\ HeadingsOf(file, n) = {}
       /\ LinesEq(file, Directive(n)) = {}
       /\ n \notin introspected
       /\ \A k \in 1..Len(stdout) : stdout[k] # n
  /\ Cardinality(Headings(file)) <= Cardinality(DocumentedNames)
  /\ Cardinality(LinesEq(file, ".. plot::")) <= Cardinality(DocumentedNames \ skip_plot)

\* a complete run over a key of skip that is in skip_plot too, an underscore
\* key, and a documented key
C6_Witness ==
  /\ pc = "done"
  /\ \E n \in KeySet(cells) : n \in skip /\ n \in skip_plot
  /\ \E n \in KeySet(cells) : Head(n) = "_"
  /\ DocumentedNames # {}

\* C7: when a documented callable can not be introspected the run ends
\* aborted on the first such name, with the file closed and holding the
\* header and the complete sections of the documented names sorted before
\* that name, and nothing for it or for the names after it.
C7_AbortLeavesPrefix ==
  (pc \in { "done", "aborted" } /\ Unintrospectable # {}) =>
    LET before == { n \in DocumentedNames : StrLess(n, FirstUnintrospectable) }
    IN  /\ pc = "aborted"
        /\ fault = << FirstUnintrospectable >>
        /\ handle = "closed"
        /\ \A n \in before : Cardinality(HeadingsOf(file, n)) = 1
        /\ \A n \in DocumentedNames \ before :
             HeadingsOf(file, n) = {} /\ LinesEq(file, Directive(n)) = {}
        /\ Cardinality(Headings(file)) = Cardinality(before)
        /\ Len(file) = 7 + 7 * Cardinality(before \cap skip_plot)
                         + 15 * Cardinality(before \ skip_plot)
        /\ file[Len(file)] \in { "", "=============================" }

\* a run aborted between a section already written and a name still to come
C7_Witness ==
  /\ pc = "aborted"
  /\ Headings(file) # {}
  /\ idx < Len(keys)
  /\ ~ Skipped(keys[Len(keys)], skip)

\* C10: an entry of skip or skip_plot that names no registry key, or of
\* skip_settings that names no parameter, changes nothing: the run with the
\* entry ends as the run without it, leaving the same file, and it fails
\* only where a callable can not be introspected.
C10_DanglingEntryIgnored ==
  /\ (pc \in { "done", "aborted" } /\ removed # "none") =>
       file = prevFile /\ pc = prevEnd
  /\ pc = "aborted" => Unintrospectable # {}

\* a complete second run that wrote sections after an entry was deleted
C10_Witness ==
  /\ pc = "done"
  /\ removed = "skip_settings"
  /\ Cardinality(Headings(file)) >= 2

(***************************************************************************)
(* Claims about bend90                                                     *)
(***************************************************************************)
\* the positions of the children of a cell that are of a kind
ChildrenOf(cell, kind) == { k \in 1..Len(cell.children) : cell.children[k].kind = kind }

\* C8: for radius > 0 and width > 0 the returned cell got exactly three
\* labels, all on DEVREC, and then at least one pin, all pins on PORT.
C8_ThreeLabelsThenPins ==
  (bpc = "returned" /\ radius > 0 /\ width > 0) =>
    LET cell == returned[1]
        labs == ChildrenOf(cell, "label")
        pins == ChildrenOf(cell, "pin")
    IN  /\ Cardinality(labs) = 3
        /\ \A k \in labs : cell.children[k].layer = "DEVREC"
        /\ Cardinality(pins) >= 1
        /\ \A k \in pins : cell.children[k].layer = "PORT"
        /\ \A k \in labs : \A j \in pins : k < j
        /\ labs \cup pins = 1..Len(cell.children)

\* bend90 returned for arguments other than the defaults
C8_Witness ==
  /\ bpc = "returned"
  /\ radius # 320
  /\ width # 16
  /\ Len(returned[1].children) > 3

DecimalDigits == { "0", "1", "2", "3", "4", "5", "6", "7", "8", "9" }

RECURSIVE DigitsValue(_)
DigitsValue(ds) ==
  IF ds = << >> THEN 0
  ELSE 10 * DigitsValue(SubSeq(ds, 1, Len(ds) - 1))
         + (CHOOSE d \in 0..9 : ToString(d) = ds[Len(ds)])

\* z is digits, a point, and exactly three digits
ThreeDecimals(z) ==
  /\ Len(z) >= 5
  /\ z[Len(z) - 3] = "."
  /\ \A k \in 1..Len(z) : k # Len(z) - 3 => z[k] \in DecimalDigits

\* the number such a text denotes, in thousandths
Thousandths(z) == DigitsValue(SelectSeq(z, LAMBDA ch : ch # "."))

\* C9: the third label is "Spice_param:radius=<r>u wg_width=<w>u", <r> and
\* <w> being the radius and the width with exactly three decimals (the
\* nearest thousandth); radius=10, width=0.5 gives 10.000 and 0.500.
C9_ParameterLabel ==
  bpc \in { "loop", "return", "returned" } =>
    /\ Len(labels) = 3
    /\ LET text == labels[3]
           u1 == CHOOSE k \in 1..Len(text) :
                   text[k] = "u" /\ \A j \in 1..(k - 1) : text[j] # "u"
           r == SubSeq(text, 2, u1 - 1)
           w == SubSeq(text, u1 + 2, Len(text) - 1)
       IN  /\ text[1] = "Spice_param:radius="
           /\ ThreeDecimals(r)
           /\ text[u1 + 1] = " wg_width="
           /\ ThreeDecimals(w)
           /\ text[Len(text)] = "u"
           /\ 32 * Thousandths(r) - 1000 * radius \in -16..16
           /\ 32 * Thousandths(w) - 1000 * width \in -16..16
    /\ (radius = 320 /\ width = 16) =>
         NameStr(labels[3]) = "Spice_param:radius=10.000u wg_width=0.500u"
    /\ bpc = "returned" => returned[1].children[3].text = labels[3]

\* bend90 returned for a radius that is rounded up and a width that is
\* rounded down to the thousandth
C9_Witness ==
  /\ bpc = "returned"
  /\ radius = 3
  /\ width = 1

====
